---- MODULE Spec2Model ----
(***************************************************************************)
(* Family Budget Tracker (bi-weekly), src/src/App.js.                      *)
(*                                                                         *)
(* Time.  A JavaScript Date is an instant; the model counts instants in    *)
(* whole hours since 2024-01-01T00:00Z.  A calendar day is an integer,     *)
(* day 0 = 2024-01-01, so 2024-01-20 is day 19 and 2023-12-20 is day -12.  *)
(* The local-time accessors of Date (getFullYear/getMonth/getDate, the     *)
(* three-argument constructor, setDate) depend on the time zone of the     *)
(* browser, which is part of the environment: the variable zone.           *)
(*                                                                         *)
(* Strings.  A date string is a pair: <<"date", D>> is the well-formed     *)
(* YYYY-MM-DD string of day D, <<"text", k>> is another string             *)
(* (k = 0 the empty string, k = 1 the string                                *)
(* \dddd-\dd-\dd made of backslashes, the letter d and dashes).            *)
(*                                                                         *)
(* Numbers.  A value found in an entry's amount field is a pair:           *)
(* <<"num", n>> the finite number n, <<"inf", s>> the number s*Infinity,   *)
(* <<"nan", 0>> NaN, <<"numstr", n>> a string that reads as n,             *)
(* <<"bad", 0>> a string that is not a number.                             *)
(*                                                                         *)
(* Storage.  localStorage holds one item per key of LS_KEYS; an item is a  *)
(* record: kind "missing" (getItem returns null), "empty" (the empty       *)
(* string), "notjson" (a text JSON.parse rejects) or "json"; a "json" item *)
(* reads as the JSON value null (shape "null") or as the value it carries  *)
(* (shape "ok"; for the session this includes null, no session).  The      *)
(* variable shape tells, for each of users, trackers and session, which of *)
(* the two the JavaScript value is; a users or trackers variable whose     *)
(* value is null holds its empty default in the model.                     *)
(***************************************************************************)
EXTENDS Integers, Sequences, FiniteSets, TLC

VARIABLES
  zone,      \* the time zone of the browser (environment)
  now,       \* the clock of the browser: what new Date() returns
  users,     \* useState: account id -> { name, email, pass, familyId }
  trackers,  \* useState: family id -> tracker
  session,   \* useState: { email, familyId }, or NoSession for null
  viewDate,  \* Dashboard useState: the reference date of the period shown
  anchor,    \* Dashboard useMemo: parseISO(tracker.anchorISO || todayISO())
  reader,    \* the FileReader started by Upload Backup, with its closure
  download,  \* the file last written by Download Backup
  exports,   \* how many files Download Backup has written
  imports,   \* how many files Upload Backup has been given
  uidCount,  \* how many ids uid() has handed out
  alerted,   \* the message of the alert() raised by the last command
  storage,   \* localStorage: the items under the three keys of LS_KEYS
  shape,     \* what users, trackers and session are: "ok" or "null"
  uncaught   \* "handler": the last command threw; "render": the page is gone

vars == <<zone, now, users, trackers, session, viewDate, anchor, reader,
          download, exports, imports, uidCount, alerted, storage, shape,
          uncaught>>

-----------------------------------------------------------------------------
(* Bounds of the model *)

MaxDrift == 30
MaxEntries == 2
MaxUid == 2
MaxExports == 1
MaxImports == 1

(* Time zones: UTC; UTC-5 without and with daylight saving time (the        *)
(* clocks go forward at 02:00 on day dstFrom and back on day dstTo);        *)
(* UTC+8.                                                                   *)
Zones ==
  { [std |-> 0,  dst |-> FALSE, dstFrom |-> 0,  dstTo |-> 0],
    [std |-> -5, dst |-> FALSE, dstFrom |-> 0,  dstTo |-> 0],
    [std |-> -5, dst |-> TRUE,  dstFrom |-> 30, dstTo |-> 100],
    [std |-> 8,  dst |-> FALSE, dstFrom |-> 0,  dstTo |-> 0] }

Null == <<"null", 0>>

-----------------------------------------------------------------------------
(* The Date object in the time zone of the browser *)

HoursPerDay == 24

(* Is the instant t inside daylight saving time? *)
InDstInstant(t) ==
  /\ zone.dst
  /\ t >= HoursPerDay * zone.dstFrom + 2 - zone.std
  /\ t < HoursPerDay * zone.dstTo + 1 - zone.std

(* Is the wall-clock time (day D, hour w) inside daylight saving time? *)
InDstWall(D, w) ==
  /\ zone.dst
  /\ (D > zone.dstFrom \/ (D = zone.dstFrom /\ w >= 3))
  /\ (D < zone.dstTo \/ (D = zone.dstTo /\ w < 2))

(* Date.prototype.getTimezoneOffset, negated, in hours *)
LocalOffset(t) == zone.std + (IF InDstInstant(t) THEN 1 ELSE 0)

(* getFullYear/getMonth/getDate: the local calendar day of an instant *)
LocalDay(t) == (t + LocalOffset(t)) \div HoursPerDay

(* getHours: the local hour of the day of an instant *)
LocalHour(t) == (t + LocalOffset(t)) % HoursPerDay

(* new Date(year, month, day, hour): the instant of a local wall-clock time *)
FromLocal(D, w) ==
  HoursPerDay * D + w - zone.std - (IF InDstWall(D, w) THEN 1 ELSE 0)

(* d.setDate(d.getDate() + k): k calendar days later at the same local hour *)
SetDateRel(t, k) == FromLocal(LocalDay(t) + k, LocalHour(t))

(* The JavaScript % operator: the remainder has the sign of the dividend *)
JsRem(a, n) == IF a >= 0 THEN a % n ELSE -((-a) % n)

-----------------------------------------------------------------------------
(* Utilities *)

IsDateStr(s) == s[1] = "date"

(* A string is truthy unless it is empty *)
Truthy(s) == s # <<"text", 0>> /\ s # Null

todayISO == <<"date", now \div HoursPerDay>>

toISO(d) == <<"date", d \div HoursPerDay>>

(* new Date("YYYY-MM-DD") is midnight UTC of that day; any other string    *)
(* of the model is an Invalid Date and is replaced by the current time.    *)
parseISO(dateStr) ==
  IF IsDateStr(dateStr) THEN HoursPerDay * dateStr[2] ELSE now

PeriodDays == 14

getPeriodOffsetFlooredOnly(diffDays) == JsRem(diffDays, PeriodDays)

getPeriodOffset(diffDays) ==
  JsRem(JsRem(diffDays, PeriodDays) + PeriodDays, PeriodDays)

getPeriodForDate(date, anchorDate) ==
  LET d == FromLocal(LocalDay(date), 0)
      a == FromLocal(LocalDay(anchorDate), 0)
      diffDays == (d - a) \div HoursPerDay
      offset == getPeriodOffset(diffDays)
      start == SetDateRel(d, -offset)
      end == SetDateRel(start, PeriodDays - 1)
  IN [start |-> start, end |-> end]

addDays(date, days) == SetDateRel(date, days)

-----------------------------------------------------------------------------
(* Numbers *)

Zero == <<"num", 0>>
NaN == <<"nan", 0>>

IsFinite(v) == v[1] = "num"

(* Number(x) for the values an amount field can hold *)
Number(v) ==
  CASE v[1] = "num" -> v
    [] v[1] = "inf" -> v
    [] v[1] = "nan" -> v
    [] v[1] = "numstr" -> <<"num", v[2]>>
    [] v[1] = "null" -> Zero
    [] OTHER -> NaN

(* x || 0 for a number x: NaN and 0 are falsy *)
OrZero(v) == IF v[1] = "nan" \/ v = Zero THEN Zero ELSE v

(* a + b and a - b on IEEE numbers *)
Plus(a, b) ==
  CASE a[1] = "nan" \/ b[1] = "nan" -> NaN
    [] a[1] = "inf" /\ b[1] = "inf" -> IF a[2] = b[2] THEN a ELSE NaN
    [] a[1] = "inf" -> a
    [] b[1] = "inf" -> b
    [] OTHER -> <<"num", a[2] + b[2]>>

Negate(a) == IF a[1] = "nan" THEN a ELSE <<a[1], -a[2]>>

Minus(a, b) == Plus(a, Negate(b))

(* JSON.stringify writes Infinity and NaN as null; JSON.parse reads back    *)
(* what was written.                                                        *)
JsonNumber(v) == IF v[1] \in {"inf", "nan"} THEN <<"null", 0>> ELSE v

(* fmtMoney: NaN is shown as $0.00, any other number as itself in dollars *)
fmtMoney(n) == IF n[1] = "nan" THEN <<"money", Zero>> ELSE <<"money", n>>

-----------------------------------------------------------------------------
(* Ledger *)

Kinds == {"income", "expenses", "savings", "emergency"}

inRange(iso, period) ==
  LET d == parseISO(iso) IN d >= period.start /\ d <= period.end

filterEntriesByPeriod(data, period) ==
  [k \in Kinds |-> SelectSeq(data[k], LAMBDA e : inRange(e.date, period))]

(* arr.reduce((a, b) => a + (Number(b.amount) || 0), 0) *)
RECURSIVE sum(_)
sum(arr) ==
  IF arr = << >> THEN Zero
  ELSE Plus(sum(SubSeq(arr, 1, Len(arr) - 1)),
            OrZero(Number(arr[Len(arr)].amount)))

calcTotals(periodEntries) == [k \in Kinds |-> sum(periodEntries[k])]

spendingMoneyClamped(totals) ==
  LET m == Minus(Minus(Minus(totals.income, totals.expenses), totals.savings),
                 totals.emergency)
  IN IF m[1] = "num" /\ m[2] < 0 THEN Zero ELSE m

(* totals.income - totals.expenses - totals.savings - totals.emergency *)
spendingMoney(totals) ==
  Minus(Minus(Minus(totals.income, totals.expenses), totals.savings),
        totals.emergency)

-----------------------------------------------------------------------------
(* The store: accounts, trackers, session *)

Emails == {"a@x", "b@x"}
Passwords == {"p", "q"}

NoSession == [email |-> "", familyId |-> 0]

EmptyData == [k \in Kinds |-> << >>]

NoTracker ==
  [id |-> 0, name |-> "", anchorISO |-> <<"text", 0>>, members |-> << >>,
   data |-> EmptyData]

NoFile == [kind |-> "none", value |-> NoTracker]

NoTrackers == [f \in {} |-> NoTracker]

NoUsers == [e \in {} |-> 0]

IdleReader == [busy |-> FALSE, trackers |-> NoTrackers, file |-> NoFile]

(* JSON.parse(JSON.stringify(tracker)) *)
JsonRoundTrip(tr) ==
  IF "data" \in DOMAIN tr
    THEN [tr EXCEPT !.data = [k \in Kinds |->
           [i \in 1..Len(tr.data[k]) |->
              [tr.data[k][i] EXCEPT !.amount = JsonNumber(@)]]]]
    ELSE tr

(* The keys of LS_KEYS *)
LS_KEYS == {"users", "trackers", "session"}

MissingItem == [kind |-> "missing", shape |-> "ok"]

(* function load(key, fallback): the fallback when the item is missing,     *)
(* empty or not JSON, what JSON.parse returns otherwise.                    *)
load(item, fallback) == IF item.kind = "json" THEN item.value ELSE fallback

loadShape(item) == IF item.kind = "json" THEN item.shape ELSE "ok"

(* function save(key, value): JSON.stringify of the value *)
save(sh, value) == [kind |-> "json", shape |-> sh, value |-> value]

(* The three useEffect: what localStorage holds after a committed render *)
Saved(u, t, s, sh) ==
  [users |-> save(sh.users, u),
   trackers |-> save(sh.trackers, [f \in DOMAIN t |-> JsonRoundTrip(t[f])]),
   session |-> save(sh.session, s)]

(* const currentUser = ...; const currentTracker = ...; the Dashboard is    *)
(* rendered when both are found, the sign-in forms otherwise.               *)
DashboardShown(u, t, s) ==
  /\ s.email # "" /\ s.email \in DOMAIN u
  /\ s.familyId # 0 /\ s.familyId \in DOMAIN t

(* A render throws a TypeError when it reads users[session.email] or        *)
(* trackers[session.familyId] of null, or, in the Dashboard,                *)
(* tracker.data.income of a tracker without data.                           *)
RenderThrows(u, t, s, sh) ==
  \/ s.email # "" /\ sh.users = "null"
  \/ s.familyId # 0 /\ sh.trackers = "null"
  \/ DashboardShown(u, t, s) /\ "data" \notin DOMAIN t[s.familyId]

(* The page is up and shows the Dashboard *)
Shown == uncaught # "render" /\ DashboardShown(users, trackers, session)

FormsShownAlways == uncaught # "render"

(* The page is up and shows the sign-in forms (AuthAndSetup) *)
FormsShown == uncaught # "render" /\ ~DashboardShown(users, trackers, session)

tracker == trackers[session.familyId]

period == getPeriodForDate(viewDate, anchor)

periodEntries == filterEntriesByPeriod(tracker.data, period)

totals == calcTotals(periodEntries)

(* What a tracker's anchor memo evaluates to when it is (re)computed *)
anchorOf(tr) ==
  parseISO(IF "anchorISO" \in DOMAIN tr /\ Truthy(tr.anchorISO)
             THEN tr.anchorISO ELSE todayISO)

(* The render that follows a command that leaves the store as (u, t, s):    *)
(* a state variable the command has set holds an object; a Dashboard that   *)
(* mounts starts with viewDate = new Date(); the anchor memo is recomputed  *)
(* when tracker.anchorISO changed; a Dashboard that is not rendered has no  *)
(* state; the effects save the three values once the render is committed;   *)
(* a render that throws is not committed and takes the page down.           *)
Render(u, t, s, vd) ==
  LET sh == [users |-> IF u # users THEN "ok" ELSE shape.users,
             trackers |-> IF t # trackers THEN "ok" ELSE shape.trackers,
             session |-> IF s # session THEN "ok" ELSE shape.session]
  IN /\ users' = u
     /\ trackers' = t
     /\ session' = s
     /\ shape' = sh
     /\ IF RenderThrows(u, t, s, sh)
          THEN /\ uncaught' = "render"
               /\ storage' = storage
               /\ viewDate' = 0
               /\ anchor' = 0
          ELSE /\ uncaught' = ""
               /\ storage' = Saved(u, t, s, sh)
               /\ IF DashboardShown(u, t, s)
                    THEN /\ viewDate' = IF Shown THEN vd ELSE now
                         /\ anchor' =
                              IF Shown /\ t[s.familyId].anchorISO = tracker.anchorISO
                                THEN anchor
                                ELSE anchorOf(t[s.familyId])
                    ELSE /\ viewDate' = 0
                         /\ anchor' = 0

(* A command that returns without setting any state *)
NoChange ==
  /\ uncaught' = ""
  /\ UNCHANGED <<users, trackers, session, viewDate, anchor, storage, shape>>

(* A command that throws a TypeError before it sets any state *)
Throws ==
  /\ uncaught' = "handler"
  /\ alerted' = ""
  /\ UNCHANGED <<users, trackers, session, viewDate, anchor, storage, shape>>

Env == UNCHANGED <<zone, now>>

-----------------------------------------------------------------------------
(* Sign In, Create New Family, Join Existing Family *)

credentialsAcceptedAnyPassword(email, pass) == email \in DOMAIN users

(* !(!user || user.pass !== pass) *)
credentialsAccepted(email, pass) ==
  email \in DOMAIN users /\ users[email].pass = pass

handleLogin(email, pass) ==
  /\ FormsShown
  /\ Env /\ UNCHANGED <<reader, download, exports, imports, uidCount>>
  /\ IF shape.users = "null" THEN Throws
     ELSE IF ~credentialsAccepted(email, pass)
       THEN /\ alerted' = "Wrong email or password."
            /\ NoChange
       ELSE LET familyId == users[email].familyId IN
            IF familyId # 0 /\ shape.trackers = "null" THEN Throws
            ELSE IF familyId = 0 \/ familyId \notin DOMAIN trackers
              THEN /\ alerted' = "Your account exists but no family tracker was found."
                   /\ NoChange
              ELSE /\ alerted' = ""
                   /\ Render(users, trackers,
                             [email |-> email, familyId |-> familyId], viewDate)

(* { ...obj, [key]: value } *)
Put(obj, key, value) ==
  [x \in DOMAIN obj \cup {key} |-> IF x = key THEN value ELSE obj[x]]

emailExistsNever(email) == FALSE

(* if (users[email]) *)
emailExists(email) == email \in DOMAIN users

handleCreate(name, email, pass, trackerName, anchorISO) ==
  /\ FormsShown
  /\ uidCount < MaxUid
  /\ Env /\ UNCHANGED <<reader, download, exports, imports>>
  /\ IF shape.users = "null" THEN UNCHANGED uidCount /\ Throws
     ELSE IF emailExists(email)
       THEN /\ alerted' = "That email already exists. Try signing in."
            /\ UNCHANGED uidCount
            /\ NoChange
       ELSE LET familyId == uidCount + 1
                newUsers == Put(users, email, [name |-> name, email |-> email,
                                               pass |-> pass, familyId |-> familyId])
                newTracker == [id |-> familyId,
                               name |-> IF trackerName # "" THEN trackerName
                                        ELSE "My Family Budget",
                               anchorISO |-> anchorISO,
                               members |-> <<email>>,
                               data |-> EmptyData]
                newTrackers == Put(trackers, familyId, newTracker)
            IN /\ uidCount' = uidCount + 1
               /\ alerted' = ""
               /\ Render(newUsers, newTrackers,
                         [email |-> email, familyId |-> familyId], viewDate)

(* [...new Set([...(tracker.members || []), email])] *)
AddMember(tr, email) ==
  LET members == IF "members" \in DOMAIN tr THEN tr.members ELSE << >>
  IN IF \E i \in 1..Len(members) : members[i] = email
       THEN members ELSE Append(members, email)

handleJoin(name, email, pass, familyId) ==
  /\ FormsShown
  /\ Env /\ UNCHANGED <<reader, download, exports, imports, uidCount>>
  /\ IF shape.users = "null" THEN Throws
     ELSE IF emailExists(email)
       THEN /\ alerted' = "That email already exists. Try signing in."
            /\ NoChange
       ELSE IF shape.trackers = "null" THEN Throws
       ELSE IF familyId \notin DOMAIN trackers
         THEN /\ alerted' = "Family Code not found. Double-check the letters."
              /\ NoChange
         ELSE LET newUsers == Put(users, email, [name |-> name, email |-> email,
                                                 pass |-> pass, familyId |-> familyId])
                  newTracker == Put(trackers[familyId], "members",
                                    AddMember(trackers[familyId], email))
              IN /\ alerted' = ""
                 /\ Render(newUsers, Put(trackers, familyId, newTracker),
                           [email |-> email, familyId |-> familyId], viewDate)

-----------------------------------------------------------------------------
(* Dashboard *)

(* function updateTracker(patch): { ...trackers[tracker.id], ...patch } *)
updateTrackerName(newName) ==
  Put(trackers, tracker.id, [trackers[tracker.id] EXCEPT !.name = newName])

updateTrackerAnchorISO(iso) ==
  Put(trackers, tracker.id, [trackers[tracker.id] EXCEPT !.anchorISO = iso])

(* prompt("Rename your tracker:", tracker.name) || tracker.name; the answer *)
(* "" stands for both an empty answer and Cancel.                           *)
RenameTracker(answer) ==
  /\ Shown
  /\ Env /\ UNCHANGED <<reader, download, exports, imports, uidCount>>
  /\ LET newName == IF answer # "" THEN answer ELSE tracker.name
     IN /\ alerted' = ""
        /\ Render(users, updateTrackerName(newName), session, viewDate)

(* /^\\d{4}-\\d{2}-\\d{2}$/.test(iso): in a regular expression literal \\   *)
(* is an escaped backslash, so the pattern is: a backslash, four letters    *)
(* d, a dash, a backslash, two letters d, a dash, a backslash, two letters  *)
(* d.  No string of digits and dashes matches it.                           *)
paydayPattern(iso) == iso = <<"text", 1>>

(* prompt("Pick new Payday Start (YYYY-MM-DD):", ...) || tracker.anchorISO  *)
SetPaydayStart(answer) ==
  /\ Shown
  /\ Env /\ UNCHANGED <<reader, download, exports, imports, uidCount>>
  /\ LET iso == IF Truthy(answer) THEN answer ELSE tracker.anchorISO
     IN /\ alerted' = ""
        /\ IF paydayPattern(iso)
             THEN Render(users, updateTrackerAnchorISO(iso), session, viewDate)
             ELSE NoChange

(* onClick={() => setSession(null)} *)
LogOut ==
  /\ Shown
  /\ Env /\ UNCHANGED <<reader, download, exports, imports, uidCount>>
  /\ alerted' = ""
  /\ Render(users, trackers, NoSession, viewDate)

(* The model follows the view no further than MaxDrift days from today *)
InView(d) ==
  /\ now - MaxDrift * HoursPerDay <= d
  /\ d <= now + MaxDrift * HoursPerDay

Navigate(d) ==
  /\ InView(d)
  /\ Env /\ UNCHANGED <<reader, download, exports, imports, uidCount>>
  /\ alerted' = ""
  /\ Render(users, trackers, session, d)

(* onClick={() => setViewDate(addDays(period.start, -1))} *)
Previous == Shown /\ Navigate(addDays(period.start, -1))

(* onClick={() => setViewDate(addDays(period.end, 1))} *)
NextPeriod == Shown /\ Navigate(addDays(period.end, 1))

(* onClick={() => setViewDate(new Date())} *)
JumpToToday == Shown /\ Navigate(now)

(* const memberOptions = Object.values(users).filter(...) *)
memberOptions ==
  {e \in DOMAIN users : users[e].familyId = users[session.email].familyId}

labelDefault(kind) ==
  CASE kind = "income" -> "Pay"
    [] kind = "expenses" -> "Other"
    [] kind = "savings" -> "General"
    [] OTHER -> "Deposit"

EntryCount(tr) ==
  Len(tr.data.income) + Len(tr.data.expenses) + Len(tr.data.savings)
    + Len(tr.data.emergency)

(* function addEntry(kind, entry) *)
addEntry(kind, entry) ==
  Put(trackers, tracker.id,
      [tracker EXCEPT !.data = [@ EXCEPT ![kind] = Append(@, entry)]])

(* EntryForm submit: amount is the text of the number field ("" if empty   *)
(* or not a number), Number(amount || 0) its value.                        *)
submit(kind, date, amount, who, label) ==
  /\ Shown
  /\ EntryCount(tracker) < MaxEntries
  /\ uidCount < MaxUid
  /\ who \in memberOptions
  /\ Env /\ UNCHANGED <<reader, download, exports, imports>>
  /\ LET entry == [id |-> uidCount + 1,
                   date |-> date,
                   amount |-> Number(IF amount = <<"text", 0>> THEN Zero ELSE amount),
                   who |-> who,
                   whoName |-> users[who].name,
                   label |-> IF label # "" THEN label ELSE labelDefault(kind)]
     IN /\ uidCount' = uidCount + 1
        /\ alerted' = ""
        /\ Render(users, addEntry(kind, entry), session, viewDate)

(* function deleteEntry(kind, id), from a Delete button of a listed row *)
deleteEntry(kind, id) ==
  /\ Shown
  /\ \E i \in 1..Len(tracker.data[kind]) : tracker.data[kind][i].id = id
  /\ Env /\ UNCHANGED <<reader, download, exports, imports, uidCount>>
  /\ alerted' = ""
  /\ Render(users,
            Put(trackers, tracker.id,
                [tracker EXCEPT !.data = [@ EXCEPT ![kind] =
                   SelectSeq(@, LAMBDA x : x.id # id)]]),
            session, viewDate)

-----------------------------------------------------------------------------
(* Backup / Restore *)

handleExport ==
  /\ Shown
  /\ exports < MaxExports
  /\ Env /\ UNCHANGED <<reader, imports, uidCount>>
  /\ alerted' = ""
  /\ exports' = exports + 1
  /\ download' = [kind |-> "tracker", value |-> JsonRoundTrip(tracker)]
  /\ NoChange

(* A backup file that did not come out of Download Backup unchanged: an     *)
(* amount written 1e999, which JSON.parse reads as Infinity, and two        *)
(* entries of one category under the same id.                               *)
ForeignBackup ==
  [id |-> 1, name |-> "Other", anchorISO |-> <<"date", 7>>,
   members |-> <<"a@x">>,
   data |-> [EmptyData EXCEPT !.income =
               << [id |-> 90, date |-> <<"date", 4>>, amount |-> <<"inf", 1>>,
                   who |-> "a@x", whoName |-> "Mom", label |-> "Pay"],
                  [id |-> 90, date |-> <<"date", 4>>, amount |-> <<"num", 5>>,
                   who |-> "a@x", whoName |-> "Mom", label |-> "Gift"] >>]]

(* The file {"id": 1}: JSON with an id and nothing else *)
IdOnlyBackup == [id |-> 1]

(* The files the user can pick: one that is not JSON, one that is JSON      *)
(* without an id, the backup of another device, the file with an id and     *)
(* nothing else, the last download.                                         *)
Files ==
  { [kind |-> "garbage", value |-> NoTracker],
    [kind |-> "noid", value |-> NoTracker],
    [kind |-> "tracker", value |-> ForeignBackup],
    [kind |-> "tracker", value |-> IdOnlyBackup] }
  \cup (IF download.kind = "tracker" THEN {download} ELSE {})

(* function handleImport(e): reader.readAsText(file); the onload callback   *)
(* closes over the trackers of this render.                                 *)
handleImport(file) ==
  /\ Shown
  /\ ~reader.busy
  /\ imports < MaxImports
  /\ Env /\ UNCHANGED <<download, exports, uidCount>>
  /\ alerted' = ""
  /\ imports' = imports + 1
  /\ reader' = [busy |-> TRUE, trackers |-> trackers, file |-> file]
  /\ NoChange

payloadAcceptedWithoutId(file) == file.kind \in {"tracker", "noid"}

(* JSON.parse(reader.result) does not throw and parsed?.id is truthy *)
payloadAccepted(file) == file.kind = "tracker" /\ file.value.id # 0

(* reader.onload.  When the page is gone setTrackers does nothing.  When    *)
(* the render that follows setTrackers throws, the error surfaces after    *)
(* the alert or, where the update is rendered synchronously, inside the    *)
(* try block, whose catch raises the other alert.                          *)
onload ==
  /\ reader.busy
  /\ Env /\ UNCHANGED <<download, exports, imports, uidCount>>
  /\ reader' = IdleReader
  /\ IF payloadAccepted(reader.file)
       THEN IF uncaught = "render"
         THEN /\ alerted' = "Imported! If this replaced your current family, re-login if needed."
              /\ UNCHANGED <<users, trackers, session, viewDate, anchor,
                             storage, shape, uncaught>>
         ELSE /\ Render(users,
                        Put(reader.trackers, reader.file.value.id, reader.file.value),
                        session, viewDate)
              /\ \/ alerted' = "Imported! If this replaced your current family, re-login if needed."
                 \/ /\ uncaught' = "render"
                    /\ alerted' = "Not a valid backup file."
       ELSE /\ alerted' = "Not a valid backup file."
            /\ UNCHANGED <<users, trackers, session, viewDate, anchor,
                           storage, shape, uncaught>>

-----------------------------------------------------------------------------
(* Startup *)

(* The useState initialisers load the three items and the first render     *)
(* follows: the state of the page that starts on the stored items st.      *)
Boot(st) ==
  LET u == load(st.users, NoUsers)
      t == load(st.trackers, NoTrackers)
      s == load(st.session, NoSession)
      sh == [users |-> loadShape(st.users),
             trackers |-> loadShape(st.trackers),
             session |-> loadShape(st.session)]
      up == ~RenderThrows(u, t, s, sh)
  IN [users |-> u, trackers |-> t, session |-> s, shape |-> sh,
      uncaught |-> IF up THEN "" ELSE "render",
      storage |-> IF up THEN Saved(u, t, s, sh) ELSE st,
      viewDate |-> IF up /\ DashboardShown(u, t, s) THEN now ELSE 0,
      anchor |-> IF up /\ DashboardShown(u, t, s)
                   THEN anchorOf(t[s.familyId]) ELSE 0]

(* The page has just started on the stored items st *)
Started(st) ==
  /\ users = Boot(st).users
  /\ trackers = Boot(st).trackers
  /\ session = Boot(st).session
  /\ shape = Boot(st).shape
  /\ uncaught = Boot(st).uncaught
  /\ storage = Boot(st).storage
  /\ viewDate = Boot(st).viewDate
  /\ anchor = Boot(st).anchor
  /\ reader = IdleReader
  /\ alerted = ""

(* The user reloads the page: it starts again on what localStorage holds;  *)
(* a file being read is dropped with the page.                             *)
Reload ==
  /\ Env /\ UNCHANGED <<download, exports, imports, uidCount>>
  /\ users' = Boot(storage).users
  /\ trackers' = Boot(storage).trackers
  /\ session' = Boot(storage).session
  /\ shape' = Boot(storage).shape
  /\ uncaught' = Boot(storage).uncaught
  /\ storage' = Boot(storage).storage
  /\ viewDate' = Boot(storage).viewDate
  /\ anchor' = Boot(storage).anchor
  /\ reader' = IdleReader
  /\ alerted' = ""

NothingStored ==
  [users |-> MissingItem, trackers |-> MissingItem, session |-> MissingItem]

(* Items that load replaces by the fallback: no item, the empty string, a   *)
(* text that is not JSON.                                                   *)
UnreadableItems ==
  {MissingItem, [kind |-> "empty", shape |-> "ok"],
   [kind |-> "notjson", shape |-> "ok"]}

-----------------------------------------------------------------------------
(* The clock of the browser: the commands of one run of the model happen  *)
(* within the same hour.                                                    *)

(* 2024-01-05T12:00Z *)
StartOfClock == HoursPerDay * 4 + 12

-----------------------------------------------------------------------------
(* The application, from an empty store *)

FamilyCodes == {1, 2, 9}
AnchorInputs == {<<"date", 0>>}
PaydayAnswers == {<<"text", 0>>, <<"date", 14>>, <<"text", 1>>}
EntryDates == {todayISO}
AmountTexts == {<<"numstr", 10>>}
EntryKinds == {"income", "expenses"}

Init ==
  /\ zone \in {z \in Zones : z.dst}
  /\ now = StartOfClock
  /\ Started(NothingStored)
  /\ download = NoFile
  /\ exports = 0
  /\ imports = 0
  /\ uidCount = 0

SignIn == \E email \in Emails, pass \in Passwords : handleLogin(email, pass)

CreateFamily ==
  \E email \in Emails, anchorISO \in AnchorInputs :
    handleCreate("Mom", email, "p", "Budget", anchorISO)

JoinFamily ==
  \E email \in Emails, familyId \in FamilyCodes :
    handleJoin("Dad", email, "q", familyId)

Rename == \E answer \in {"", "Renamed"} : RenameTracker(answer)

SetPayday == \E answer \in PaydayAnswers : SetPaydayStart(answer)

AddEntry ==
  \E kind \in EntryKinds, date \in EntryDates, amount \in AmountTexts,
     who \in Emails :
    submit(kind, date, amount, who, "")

(* The ids of the rows listed under a category *)
RowIds(kind) ==
  {tracker.data[kind][i].id : i \in 1..Len(tracker.data[kind])}

DeleteEntry ==
  /\ Shown
  /\ \E kind \in Kinds : \E id \in RowIds(kind) : deleteEntry(kind, id)

UploadBackup == \E file \in Files : handleImport(file)

Next ==
  \/ SignIn
  \/ CreateFamily
  \/ JoinFamily
  \/ SetPayday
  \/ Rename
  \/ LogOut
  \/ AddEntry
  \/ DeleteEntry
  \/ handleExport
  \/ UploadBackup
  \/ onload

Spec == Init /\ [][Next]_vars

-----------------------------------------------------------------------------
(* The Dashboard of one family: the period shown and the ledger under it *)

Mom == [name |-> "Mom", email |-> "a@x", pass |-> "p", familyId |-> 1]

(* The store after Mom created family 1 with the given Payday Start and    *)
(* the ledger holds the given entries, seen at time n in zone z.           *)
DashboardOf(z, n, anchorISO, data) ==
  /\ zone = z
  /\ now = n
  /\ users = [e \in {"a@x"} |-> Mom]
  /\ trackers = [f \in {1} |->
                   [id |-> 1, name |-> "Budget", anchorISO |-> anchorISO,
                    members |-> <<"a@x">>, data |-> data]]
  /\ session = [email |-> "a@x", familyId |-> 1]
  /\ viewDate = n
  /\ anchor = parseISO(IF Truthy(anchorISO) THEN anchorISO ELSE todayISO)
  /\ reader = IdleReader
  /\ download = NoFile
  /\ exports = 0
  /\ imports = 0
  /\ uidCount = 1
  /\ alerted = ""
  /\ shape = [users |-> "ok", trackers |-> "ok", session |-> "ok"]
  /\ storage = Saved(users, trackers, session, shape)
  /\ uncaught = ""

NextView == Previous \/ NextPeriod \/ JumpToToday

(* Period calculator: any zone, many clocks, many anchors *)
NowDays == {-12, 4, 19, 45}
NowHours == {3, 12, 23}
AnchorStrs ==
  {<<"date", -20>>, <<"date", 0>>, <<"date", 1>>, <<"date", 9>>,
   <<"date", 40>>, <<"text", 1>>}

InitPeriod ==
  \E z \in Zones, D \in NowDays, h \in NowHours, anchorISO \in AnchorStrs :
    DashboardOf(z, HoursPerDay * D + h, anchorISO, EmptyData)

SpecPeriod == InitPeriod /\ [][NextView]_vars

(* All sequences over S of length at most n *)
SeqsUpTo(n, S) == UNION {[1..m -> S] : m \in 0..n}

(* The entries made of a sequence of <<date, amount>> pairs *)
Entries(pairs) ==
  [i \in 1..Len(pairs) |->
     [id |-> 10 + i, date |-> pairs[i][1], amount |-> pairs[i][2],
      who |-> "a@x", whoName |-> "Mom", label |-> "x"]]

(* Filter: any zone, entries dated around the two ends of the period *)
EdgeDates ==
  {<<"date", D>> : D \in {-2, -1, 0, 12, 13, 14}} \cup {<<"text", 0>>}

InitFilter ==
  \E z \in Zones,
     inc \in SeqsUpTo(2, EdgeDates \X {<<"num", 10>>}),
     ex \in SeqsUpTo(1, EdgeDates \X {<<"num", 10>>}),
     sv \in SeqsUpTo(1, {<<"date", 0>>, <<"date", 13>>} \X {<<"num", 10>>}),
     em \in SeqsUpTo(1, {<<"date", -1>>, <<"date", 12>>} \X {<<"num", 10>>}) :
    DashboardOf(z, StartOfClock, <<"date", 0>>,
                [income |-> Entries(inc), expenses |-> Entries(ex),
                 savings |-> Entries(sv), emergency |-> Entries(em)])

SpecFilter == InitFilter /\ [][NextView]_vars

(* Totals: amounts of every sort, dated today or far outside the period *)
Today == <<"date", 4>>
FarDay == <<"date", 50>>

IncomeSeqs ==
  SeqsUpTo(4, {Today} \X {<<"num", 10>>, <<"num", -3>>, <<"bad", 0>>, Zero})
    \cup SeqsUpTo(2, {Today} \X {<<"num", 500>>, <<"inf", 1>>, <<"numstr", 7>>})

ExpenseSeqs ==
  SeqsUpTo(2, {<<Today, <<"num", 120>> >>, <<Today, <<"num", 30>> >>,
               <<Today, <<"inf", 1>> >>, <<FarDay, <<"num", 120>> >>})

InitTotals ==
  \E z \in {z \in Zones : z.dst},
     inc \in IncomeSeqs,
     ex \in ExpenseSeqs,
     sv \in SeqsUpTo(1, {Today} \X {<<"num", 50>>, <<"bad", 0>>}),
     em \in SeqsUpTo(1, {Today} \X {Zero, <<"num", 700>>}) :
    DashboardOf(z, StartOfClock, <<"date", 0>>,
                [income |-> Entries(inc), expenses |-> Entries(ex),
                 savings |-> Entries(sv), emergency |-> Entries(em)])

SpecTotals == InitTotals /\ [][NextView]_vars

-----------------------------------------------------------------------------
(* Startup on what an earlier run, or anything else, left in localStorage *)

Budget1 ==
  [id |-> 1, name |-> "Budget", anchorISO |-> <<"date", 0>>,
   members |-> <<"a@x">>, data |-> EmptyData]

(* The text null is JSON: JSON.parse returns null *)
StoredUsers ==
  UnreadableItems
    \cup {[kind |-> "json", shape |-> "null", value |-> NoUsers],
          save("ok", NoUsers), save("ok", [e \in {"a@x"} |-> Mom]),
          save("ok", [e \in {"b@x"} |-> [Mom EXCEPT !.email = "b@x"]])}

StoredTrackers ==
  UnreadableItems
    \cup {[kind |-> "json", shape |-> "null", value |-> NoTrackers],
          save("ok", NoTrackers), save("ok", [f \in {1} |-> Budget1])}

StoredSessions ==
  UnreadableItems
    \cup {save("ok", NoSession),
          save("ok", [email |-> "a@x", familyId |-> 1])}

InitStartup ==
  \E u \in StoredUsers, t \in StoredTrackers, s \in StoredSessions :
    /\ zone \in {z \in Zones : z.dst}
    /\ now = StartOfClock
    /\ Started([users |-> u, trackers |-> t, session |-> s])
    /\ download = NoFile
    /\ exports = 0
    /\ imports = 0
    /\ uidCount = 1

NextStartup == SignIn \/ CreateFamily \/ JoinFamily \/ LogOut \/ Reload

SpecStartup == InitStartup /\ [][NextStartup]_vars

-----------------------------------------------------------------------------
(* Properties of the period calculator (SpecPeriod) *)

(* The reference date with its time of day stripped *)
viewDay == FromLocal(LocalDay(viewDate), 0)

(* C1: the period of every reference date d and anchor a is a window that   *)
(* starts and ends at local midnight, ends 13 calendar days after it        *)
(* starts, and contains d (time of day stripped); with anchor 2024-01-01    *)
(* and reference 2024-01-20 it is 2024-01-15 .. 2024-01-28.                 *)
C1_PeriodIsFourteenDaysAroundDate ==
  /\ LocalHour(period.start) = 0
  /\ LocalHour(period.end) = 0
  /\ LocalDay(period.end) = LocalDay(period.start) + 13
  /\ period.start <= viewDay
  /\ viewDay <= period.end
  /\ (LocalDay(anchor) = 0 /\ LocalDay(viewDate) = 19
        => LocalDay(period.start) = 14 /\ LocalDay(period.end) = 27)

(* After a navigation command, a reference date before the anchor that is   *)
(* not a period's first day                                                 *)
C1_Witness ==
  /\ viewDate # now
  /\ LocalDay(viewDate) < LocalDay(anchor)
  /\ LocalDay(period.start) < LocalDay(viewDate)
  /\ LocalDay(period.end) = LocalDay(period.start) + 13

(* C2: the start of the period differs from the anchor by a multiple of 14  *)
(* calendar days, also when the reference date is before the anchor; when   *)
(* the reference date is the anchor the period starts on it; with anchor    *)
(* 2024-01-01 and reference 2023-12-20 it is 2023-12-18 .. 2023-12-31.      *)
C2_PeriodStartAlignedToAnchor ==
  /\ (LocalDay(period.start) - LocalDay(anchor)) % PeriodDays = 0
  /\ (LocalDay(viewDate) = LocalDay(anchor)
        => LocalDay(period.start) = LocalDay(anchor))
  /\ (LocalDay(anchor) = 0 /\ LocalDay(viewDate) = -12
        => LocalDay(period.start) = -14 /\ LocalDay(period.end) = -1)

(* C3: after any Previous and Next commands the period shown is aligned to  *)
(* the anchor; Next shows the window that starts the day after the current  *)
(* end, Previous the window that ends the day before the current start.     *)
C3_NavigationTilesTime ==
  [][/\ (NextPeriod => LocalDay(period'.start) = LocalDay(period.end) + 1)
     /\ (Previous => LocalDay(period'.end) = LocalDay(period.start) - 1)
     /\ (NextPeriod \/ Previous =>
           (LocalDay(period'.start) - LocalDay(anchor')) % PeriodDays = 0)]_vars

-----------------------------------------------------------------------------
(* Properties of the ledger (SpecFilter, SpecTotals) *)

(* The entries of a sequence that carry a calendar date *)
Dated(arr) == SelectSeq(arr, LAMBDA e : IsDateStr(e.date))

(* The entries of a sequence dated on the calendar days first .. last *)
DatedWithin(arr, first, last) ==
  SelectSeq(arr, LAMBDA e :
    IsDateStr(e.date) /\ first <= e.date[2] /\ e.date[2] <= last)

(* C4: in each category the entries kept for the period are exactly those   *)
(* dated from the period's first day to its last day, both included, the    *)
(* days of the period being read either on the local calendar or as the     *)
(* period is displayed (toISO).                                             *)
C4_FilterKeepsFirstToLastDay ==
  \/ \A k \in Kinds :
       Dated(periodEntries[k]) =
         DatedWithin(tracker.data[k],
                     LocalDay(period.start), LocalDay(period.end))
  \/ \A k \in Kinds :
       Dated(periodEntries[k]) =
         DatedWithin(tracker.data[k],
                     toISO(period.start)[2], toISO(period.end)[2])

(* The sum of the amounts that coerce to a finite number *)
RECURSIVE FiniteSum(_)
FiniteSum(arr) ==
  IF arr = << >> THEN 0
  ELSE FiniteSum(Tail(arr))
         + (IF IsFinite(Number(Head(arr).amount))
              THEN Number(Head(arr).amount)[2] ELSE 0)

(* C5: each total is the sum of the amounts of the category, an amount      *)
(* that does not coerce to a finite number counting 0.                      *)
C5_TotalsSumFiniteAmounts ==
  \A k \in Kinds : totals[k] = <<"num", FiniteSum(periodEntries[k])>>

(* The figure under "Spending Money (this period)" *)
shownSpendingMoney == fmtMoney(spendingMoney(totals))

NoInfiniteAmount ==
  \A k \in Kinds : \A i \in 1..Len(periodEntries[k]) :
    Number(periodEntries[k][i].amount)[1] # "inf"

(* C6: the spending money shown is income - expenses - savings - emergency  *)
(* of the entries of the period, negative when the outflows exceed the      *)
(* income; income 500, expenses 120 and 30, savings 50, emergency 0 give    *)
(* 300.  (Amounts that coerce to an infinity are left to C5.)               *)
C6_SpendingMoneyIsIncomeMinusOutflows ==
  /\ NoInfiniteAmount =>
       shownSpendingMoney =
         <<"money", <<"num", FiniteSum(periodEntries.income)
                              - FiniteSum(periodEntries.expenses)
                              - FiniteSum(periodEntries.savings)
                              - FiniteSum(periodEntries.emergency)>> >>
  /\ spendingMoney([income |-> <<"num", 500>>, expenses |-> <<"num", 150>>,
                    savings |-> <<"num", 50>>, emergency |-> Zero])
       = <<"num", 300>>

(* After navigating away and back, the outflows of the period shown exceed  *)
(* its income                                                               *)
C6_Witness ==
  /\ viewDate # now
  /\ NoInfiniteAmount
  /\ Len(periodEntries.expenses) = 2
  /\ Len(periodEntries.income) = 1
  /\ shownSpendingMoney[2][1] = "num"
  /\ shownSpendingMoney[2][2] < 0

-----------------------------------------------------------------------------
(* Properties of the commands (Spec) *)

Store == <<users, trackers, session>>

(* C7: Set Payday Start with a well-formed YYYY-MM-DD date makes that date  *)
(* the anchor date of the active tracker and the anchor of the period       *)
(* shown, and leaves the entries alone.                                     *)
C7_PaydayStartTakesEffect ==
  [][\A answer \in PaydayAnswers :
       SetPaydayStart(answer) /\ IsDateStr(answer) =>
         /\ trackers'[session.familyId].anchorISO = answer
         /\ anchor' = parseISO(answer)
         /\ trackers'[session.familyId].data = tracker.data]_vars

(* C8: Sign In leaves accounts and trackers alone; it sets the session to   *)
(* (account id, tracker id of the account) when the account exists, the     *)
(* password is the stored one and the tracker id names a stored tracker,    *)
(* and leaves the session alone otherwise.                                  *)
C8_SignInOnlyWithValidCredentials ==
  [][\A email \in Emails, pass \in Passwords :
       handleLogin(email, pass) =>
         /\ users' = users
         /\ trackers' = trackers
         /\ IF /\ email \in DOMAIN users
               /\ users[email].pass = pass
               /\ users[email].familyId \in DOMAIN trackers
              THEN session' = [email |-> email,
                               familyId |-> users[email].familyId]
              ELSE session' = session]_vars

(* A sign-in was refused because the tracker of the account is not stored *)
C8_Witness ==
  /\ alerted = "Your account exists but no family tracker was found."
  /\ \E e \in DOMAIN users : users[e].familyId \notin DOMAIN trackers
  /\ ~Shown

(* C9: Create Family or Join Family with an account id that exists, and     *)
(* Join Family with a family code that names no tracker, leave accounts,    *)
(* trackers and session as they were.                                       *)
C9_RejectedRegistrationChangesNothing ==
  [][/\ \A email \in Emails, anchorISO \in AnchorInputs :
          handleCreate("Mom", email, "p", "Budget", anchorISO)
            /\ email \in DOMAIN users
          => UNCHANGED Store
     /\ \A email \in Emails, familyId \in FamilyCodes :
          handleJoin("Dad", email, "q", familyId)
            /\ (email \in DOMAIN users \/ familyId \notin DOMAIN trackers)
          => UNCHANGED Store]_vars

(* A registration was refused for an account id that exists *)
C9_Witness ==
  /\ alerted = "That email already exists. Try signing in."
  /\ users # [e \in {} |-> 0]

(* C10: when the file read by Upload Backup does not parse, or parses to a  *)
(* value without an id, an error is reported and accounts, trackers and     *)
(* session stay as they were.                                               *)
C10_BadBackupChangesNothing ==
  [][onload /\ reader.file.kind \in {"garbage", "noid"} =>
       /\ UNCHANGED Store
       /\ alerted' = "Not a valid backup file."]_vars

(* A bad backup was refused while the store held entries *)
C10_Witness ==
  /\ alerted = "Not a valid backup file."
  /\ ~reader.busy
  /\ Shown
  /\ EntryCount(tracker) > 0

(* A value shaped like a Tracker record *)
IsTracker(tr) ==
  /\ {"id", "name", "anchorISO", "members", "data"} \subseteq DOMAIN tr
  /\ DOMAIN tr.data = Kinds

(* C11: when the file read by Upload Backup parses to a value that has an   *)
(* id but is not shaped like a Tracker record, an error is reported and     *)
(* accounts, trackers and session stay as they were; after any import the   *)
(* active tracker has its four entry sequences and the Dashboard renders.   *)
C11_ImportRejectsNonTrackers ==
  [][onload =>
       /\ (reader.file.kind = "tracker" /\ ~IsTracker(reader.file.value) =>
             /\ UNCHANGED Store
             /\ alerted' = "Not a valid backup file.")
       /\ (DashboardShown(users', trackers', session') =>
             /\ IsTracker(trackers'[session'.familyId])
             /\ uncaught' # "render")]_vars

(* C12: the file written by Download Backup reads back as the active        *)
(* tracker, unchanged; an accepted import makes the stored tracker under    *)
(* the payload's id equal to the payload (so importing a download restores  *)
(* the tracker as it was when downloaded, whatever was done to it since);   *)
(* importing a payload that is already the stored tracker changes nothing.  *)
C12_BackupIsWholesaleReplace ==
  [][/\ (handleExport => download'.value = tracker)
     /\ (onload /\ payloadAccepted(reader.file) /\ uncaught # "render" =>
           trackers'[reader.file.value.id] = reader.file.value)
     /\ (onload /\ payloadAccepted(reader.file) /\ uncaught # "render"
            /\ reader.trackers = trackers
            /\ reader.file.value.id \in DOMAIN trackers
            /\ trackers[reader.file.value.id] = reader.file.value =>
           trackers' = trackers)]_vars

(* C13: unless a file is being read, the tracker id of every stored         *)
(* account names a stored tracker.                                          *)
C13_AccountTrackersResolve ==
  ~reader.busy =>
    \A e \in DOMAIN users : users[e].familyId \in DOMAIN trackers

(* The sequence arr without its i-th element *)
Without(arr, i) == SubSeq(arr, 1, i - 1) \o SubSeq(arr, i + 1, Len(arr))

(* Everything but one category of the active tracker stays as it was *)
OnlyCategoryChanges(kind) ==
  /\ users' = users
  /\ session' = session
  /\ DOMAIN trackers' = DOMAIN trackers
  /\ \A f \in DOMAIN trackers \ {session.familyId} : trackers'[f] = trackers[f]
  /\ DOMAIN trackers'[session.familyId] = DOMAIN tracker
  /\ trackers'[session.familyId].id = tracker.id
  /\ trackers'[session.familyId].name = tracker.name
  /\ trackers'[session.familyId].anchorISO = tracker.anchorISO
  /\ trackers'[session.familyId].members = tracker.members
  /\ \A k \in Kinds \ {kind} :
       trackers'[session.familyId].data[k] = tracker.data[k]

(* C15: adding an entry appends it to the sequence of its category;         *)
(* deleting a listed entry removes exactly one element of the sequence of   *)
(* its category, one with the id selected, and keeps the others in order;   *)
(* both leave the other categories, the tracker's name, anchor date and     *)
(* members, the other trackers, the accounts and the session alone.         *)
C15_EntryCommandsTouchOneCategory ==
  [][Shown =>
       /\ \A kind \in EntryKinds, date \in EntryDates, amount \in AmountTexts,
             who \in Emails :
            submit(kind, date, amount, who, "") =>
              /\ Len(trackers'[session.familyId].data[kind])
                   = Len(tracker.data[kind]) + 1
              /\ SubSeq(trackers'[session.familyId].data[kind],
                        1, Len(tracker.data[kind])) = tracker.data[kind]
              /\ LET e == trackers'[session.familyId].data[kind]
                             [Len(tracker.data[kind]) + 1]
                 IN e.date = date /\ e.amount = Number(amount) /\ e.who = who
              /\ OnlyCategoryChanges(kind)
       /\ \A kind \in Kinds : \A id \in RowIds(kind) :
            deleteEntry(kind, id) =>
              /\ \E i \in 1..Len(tracker.data[kind]) :
                   /\ tracker.data[kind][i].id = id
                   /\ trackers'[session.familyId].data[kind]
                        = Without(tracker.data[kind], i)
              /\ OnlyCategoryChanges(kind)]_vars

(* The commands of the Dashboard and those of the sign-in forms *)
DashboardCommand ==
  \/ Rename \/ SetPayday \/ LogOut \/ AddEntry \/ DeleteEntry
  \/ handleExport \/ UploadBackup

FormsCommand == SignIn \/ CreateFamily \/ JoinFamily

(* The account and the tracker of the session are both found *)
SessionResolves ==
  /\ session # NoSession
  /\ session.email \in DOMAIN users
  /\ session.familyId \in DOMAIN trackers

(* C16: the session is null or the pair of a stored account and of the      *)
(* tracker id stored in that account; the commands of the Dashboard are     *)
(* taken only when the account and the tracker of the session are found,    *)
(* and then no sign-in, create or join is; when they are not found Sign In  *)
(* and Join Family are offered and no Dashboard command is; Log Out makes   *)
(* the session null and leaves accounts and trackers alone.                 *)
C16_SessionGatesTheDashboard ==
  /\ [](/\ session # NoSession =>
            /\ session.email \in DOMAIN users
            /\ users[session.email].familyId = session.familyId
        /\ ~SessionResolves =>
            /\ ENABLED SignIn
            /\ ENABLED JoinFamily
            /\ ~ENABLED DashboardCommand)
  /\ [][/\ SessionResolves \/ ~DashboardCommand
        /\ ~SessionResolves \/ ~FormsCommand
        /\ LogOut => session' = NoSession /\ UNCHANGED <<users, trackers>>]_vars

(* The forms are offered under a session whose tracker is no longer stored *)
C16_Witness ==
  /\ session # NoSession
  /\ session.familyId \notin DOMAIN trackers
  /\ trackers # NoTrackers
  /\ uncaught = ""

(* C17: when the read of an accepted file completes, the tracker under     *)
(* the payload's id becomes the payload and every other stored tracker is  *)
(* as it was just before, with whatever was done to it since the file was  *)
(* picked.                                                                  *)
C17_ImportKeepsLaterChanges ==
  [][onload /\ payloadAccepted(reader.file) /\ uncaught # "render" =>
       /\ DOMAIN trackers' = DOMAIN trackers \cup {reader.file.value.id}
       /\ \A f \in DOMAIN trackers \ {reader.file.value.id} :
            trackers'[f] = trackers[f]]_vars

-----------------------------------------------------------------------------
(* Properties of startup (SpecStartup) *)

(* An item that holds a value of the shape its key is for *)
WellFormed(item) == item.kind = "json" /\ item.shape = "ok"

(* C14: at startup users, trackers and session hold their empty default     *)
(* (an empty object, an empty object, null) when the stored item is         *)
(* missing or malformed, and the stored value when it is well formed, so    *)
(* that a page that starts again holds what it held; no command and no      *)
(* render throws.                                                           *)
C14_StartupSurvivesMalformedStorage ==
  [][/\ uncaught' = ""
     /\ (Reload =>
           /\ (~WellFormed(storage.users) =>
                 users' = NoUsers /\ shape'.users = "ok")
           /\ (~WellFormed(storage.trackers) =>
                 trackers' = NoTrackers /\ shape'.trackers = "ok")
           /\ (~WellFormed(storage.session) =>
                 session' = NoSession /\ shape'.session = "ok")
           /\ (WellFormed(storage.users) => users' = storage.users.value)
           /\ (WellFormed(storage.trackers) =>
                 trackers' = storage.trackers.value)
           /\ (WellFormed(storage.session) =>
                 session' = storage.session.value)
           /\ (uncaught = "" => UNCHANGED <<users, trackers, session>>))]_vars

====
